---- MODULE Spec2Model ----
(***************************************************************************)
(* A model of src/socket/consumer.js: the Consumer, the consumer-side      *)
(* proxy layer of a vfs connection.                                        *)
(*                                                                         *)
(* Four specifications share the state below.                              *)
(*   SubSpec   : the subscription manager (on, off, the subscribe and      *)
(*               unsubscribe acknowledgements, onEvent).                   *)
(*   ReSpec    : SubSpec with callbacks that call on or off while the      *)
(*               queue they were in is drained.                            *)
(*   RegSpec   : the facade (route, ping), the four proxy registries and   *)
(*               the inbound notifications.                                *)
(*   ProxySpec : the proxies' own methods over the creation and removal    *)
(*               of proxies.                                               *)
(*                                                                         *)
(* JavaScript objects used as tables (proxyStreams, handlers, ...) are     *)
(* functions whose DOMAIN is the set of keys present.  Keys range over     *)
(* ordinary identifiers, not over names of Object.prototype properties.    *)
(* Proxies are objects with identity: they live in the heap objs and are   *)
(* named by their index (oid); a registry maps a key to an oid.            *)
(* What an action hands to the outside (calls forwarded to the transport,  *)
(* events emitted on proxies, callbacks invoked, an exception thrown) is   *)
(* recorded for the last action only.                                      *)
(***************************************************************************)
EXTENDS Integers, Sequences, FiniteSets, TLC

\* ------------------------------------------------------------- bounds
\* on and off calls made over a run of the subscription manager
MaxCalls == 3
\* facade calls forwarded to the transport over a run of the registries
MaxForwarded == 2

\* ------------------------------------------------------------ universes
Names == {"a", "b"}
Handlers == {"h1", "h2"}
Values == {"v"}
Errs == {"null", "E"}
NoCb == 0
\* the facade operations modelled (consumer.js:29-45) and the callbacks passed
Ops == {"spawn"}
Callbacks == {1, 2}
\* identifiers the remote side hands out
StreamIds == {1, 2, 3}
Pids == {7}
WatcherIds == {1, 2}
ApiNames == {"math"}
FnNames == {"add", "multiply"}
Chunks == {"x"}
Exits == {<<1, "SIGTERM">>}
Changes == {<<"change", "f">>}
\* readable and writable of a stream token (an absent flag leaves the
\* property of the new Stream undefined, which reads as false)
Flags == {<<TRUE, FALSE>>, <<FALSE, TRUE>>}
\* no object
Nil == 0

VARIABLES
    \* consumer.js:20-26
    proxyStreams, proxyProcesses, proxyWatchers, proxyApis,
    handlers, pendingOn, pendingOff,
    \* the heap of proxies
    objs,
    \* the transport: subscribe/unsubscribe requests awaiting their
    \* acknowledgement (in order), every wire-level call issued per name,
    \* facade calls awaiting their response (in order)
    inflight, wire, calls,
    \* what the last action did outside the tables
    sent, emitted, invoked, called, threw, last,
    \* bookkeeping of the environment: the number of facade calls forwarded,
    \* the number of callbacks handed out to on and off,
    \* how often each was invoked, and per name the callbacks of the on
    \* calls made from the latest subscribe(name) to its acknowledgement, the
    \* same for the off calls and unsubscribe(name), and the API proxies on
    \* which ready was emitted
    forwarded, nextCb, times, onSince, offSince, readied

regVars == <<proxyStreams, proxyProcesses, proxyWatchers, proxyApis, objs, calls, sent, emitted, forwarded, readied>>
subVars == <<handlers, pendingOn, pendingOff, inflight, wire, called, nextCb, times, onSince, offSince>>
outVars == <<invoked, threw, last>>
vars == <<regVars, subVars, outVars>>

\* ------------------------------------------------------------- helpers
Empty == <<>>

\* table with key k set to v (a JavaScript  t[k] = v)
Put(t, k, v) == [x \in DOMAIN t \cup {k} |-> IF x = k THEN v ELSE t[x]]

\* table without key k (a JavaScript  delete t[k])
Del(t, k) == [x \in DOMAIN t \ {k} |-> t[x]]

Has(t, k) == k \in DOMAIN t

Range(s) == {s[i] : i \in DOMAIN s}

\* one more invocation of each callback of the sequence q
Bump(t, q) == [c \in DOMAIN t |-> t[c] + Cardinality({i \in DOMAIN q : q[i] = c})]

\* a subscribe (unsubscribe) request for name awaits its acknowledgement
InFlight(op, name) == \E i \in DOMAIN inflight : inflight[i] = <<op, name>>

\* ------------------------------------------------ subscription manager
\* the loop runs from the end of the queue to its start
DrainBackwards(pending, err) ==
    [i \in 1..Len(pending) |-> <<pending[Len(pending) + 1 - i], err>>]

\* consumer.js:181-183 and 200-202: the acknowledgement invokes the queued
\* callbacks with its error, in queue order
Drain(pending, err) == [i \in 1..Len(pending) |-> <<pending[i], err>>]

\* consumer.js:172,179,190,197:  callback && pending.push(callback)
Push(pending, cb) == IF cb # NoCb THEN Append(pending, cb) ELSE pending

\* consumer.js:169: on finds an entry for name
OnHasEntry(name) == Has(handlers, name)

\* consumer.js:170,177: the handlers table after on(name, handler, ...)
OnHandlers(name, handler) ==
    IF OnHasEntry(name)
    THEN [handlers EXCEPT ![name] = Append(@, handler)]
    ELSE Put(handlers, name, <<handler>>)

\* on never queues: the callback of an on call made while the subscribe is
\* outstanding is invoked at once
OnQueuesNever(name) == FALSE

\* consumer.js:171: an entry exists and its subscribe is not yet acknowledged
OnQueues(name) == Has(pendingOn, name)

\* off never queues: every off call for a name with an entry unsubscribes
OffQueuesNever(name) == FALSE

\* consumer.js:189: an unsubscribe for name is pending
OffQueues(name) == Has(pendingOff, name)

\* off does not look for the entry and always unsubscribes
OffNoEntryNever(name) == FALSE

\* consumer.js:193: off finds no entry for name
OffNoEntry(name) == ~Has(handlers, name)

\* the acknowledgement drops one handler and keeps the entry while others remain
AckHandlersOne(name) ==
    IF ~Has(handlers, name) THEN handlers
    ELSE IF Len(handlers[name]) <= 1 THEN Del(handlers, name)
    ELSE [handlers EXCEPT ![name] = Tail(@)]

\* consumer.js:199: the handlers table after the unsubscribe acknowledgement
AckHandlers(name) == Del(handlers, name)

\* consumer.js:161-165: the handlers onEvent invokes, in order
EventList(name) == IF Has(handlers, name) THEN handlers[name] ELSE <<>>

\* the callbacks (without their arguments) of a sequence of invocations
Cbs(inv) == [i \in DOMAIN inv |-> inv[i][1]]

\* bookkeeping of an on or off call that passed callback cb and invoked inv
Called(cb, inv) ==
    /\ nextCb' = nextCb + 1
    /\ times' = Bump(Append(times, 0), Cbs(inv))

\* consumer.js:168-186
on(name, handler, cb) ==
    /\ nextCb <= MaxCalls
    /\ last' = [op |-> "on", key |-> name, x |-> handler, y |-> cb]
    /\ handlers' = OnHandlers(name, handler)
    /\ IF OnHasEntry(name)
       THEN /\ UNCHANGED <<inflight, wire>>
            /\ IF OnQueues(name)
               THEN /\ pendingOn' = [pendingOn EXCEPT ![name] = Push(@, cb)]
                    /\ invoked' = <<>>
                    /\ threw' = "none"
               ELSE /\ pendingOn' = pendingOn
                    /\ invoked' = IF cb # NoCb THEN <<<<cb, "undefined">>>> ELSE <<>>
                    /\ threw' = IF cb # NoCb THEN "none" ELSE "TypeError"
       ELSE /\ pendingOn' = Put(pendingOn, name, Push(<<>>, cb))
            /\ inflight' = Append(inflight, <<"subscribe", name>>)
            /\ wire' = [wire EXCEPT ![name] = Append(@, "subscribe")]
            /\ invoked' = <<>>
            /\ threw' = "none"
    /\ Called(cb, invoked')
    /\ onSince' = IF wire'[name] # wire[name]
                  THEN [onSince EXCEPT ![name] = Push(<<>>, cb)]
                  ELSE IF InFlight("subscribe", name)
                  THEN [onSince EXCEPT ![name] = Push(@, cb)]
                  ELSE onSince
    /\ called' = <<>>
    /\ UNCHANGED <<regVars, pendingOff, offSince>>

\* consumer.js:180-185: the acknowledgement of subscribe(name).  The closure's
\* pending is the array stored at pendingOn[name]: line 178 is the only
\* assignment and is not reached again for name before this acknowledgement.
Subscribed(err) ==
    /\ inflight # <<>>
    /\ Head(inflight)[1] = "subscribe"
    /\ LET name == Head(inflight)[2] IN
        /\ last' = [op |-> "subscribed", key |-> name, x |-> err, y |-> NoCb]
        /\ invoked' = Drain(pendingOn[name], err)
        /\ pendingOn' = Del(pendingOn, name)
    /\ inflight' = Tail(inflight)
    /\ times' = Bump(times, Cbs(invoked'))
    /\ threw' = "none"
    /\ called' = <<>>
    /\ UNCHANGED <<regVars, handlers, pendingOff, wire, nextCb, onSince, offSince>>

\* consumer.js:188-205
off(name, handler, cb) ==
    /\ nextCb <= MaxCalls
    /\ last' = [op |-> "off", key |-> name, x |-> handler, y |-> cb]
    /\ IF OffQueues(name)
       THEN /\ pendingOff' = [pendingOff EXCEPT ![name] = Push(@, cb)]
            /\ invoked' = <<>>
            /\ threw' = "none"
            /\ UNCHANGED <<inflight, wire>>
       ELSE IF OffNoEntry(name)
       THEN /\ pendingOff' = pendingOff
            /\ invoked' = IF cb # NoCb THEN <<<<cb, "undefined">>>> ELSE <<>>
            /\ threw' = IF cb # NoCb THEN "none" ELSE "TypeError"
            /\ UNCHANGED <<inflight, wire>>
       ELSE /\ pendingOff' = Put(pendingOff, name, Push(<<>>, cb))
            /\ inflight' = Append(inflight, <<"unsubscribe", name>>)
            /\ wire' = [wire EXCEPT ![name] = Append(@, "unsubscribe")]
            /\ invoked' = <<>>
            /\ threw' = "none"
    /\ Called(cb, invoked')
    /\ offSince' = IF wire'[name] # wire[name]
                   THEN [offSince EXCEPT ![name] = Push(<<>>, cb)]
                   ELSE IF InFlight("unsubscribe", name)
                   THEN [offSince EXCEPT ![name] = Push(@, cb)]
                   ELSE offSince
    /\ called' = <<>>
    /\ UNCHANGED <<regVars, handlers, pendingOn, onSince>>

\* consumer.js:198-204: the acknowledgement of unsubscribe(name); pending is
\* the array stored at pendingOff[name], as for Subscribed
Unsubscribed(err) ==
    /\ inflight # <<>>
    /\ Head(inflight)[1] = "unsubscribe"
    /\ LET name == Head(inflight)[2] IN
        /\ last' = [op |-> "unsubscribed", key |-> name, x |-> err, y |-> NoCb]
        /\ handlers' = AckHandlers(name)
        /\ invoked' = Drain(pendingOff[name], err)
        /\ pendingOff' = Del(pendingOff, name)
    /\ inflight' = Tail(inflight)
    /\ times' = Bump(times, Cbs(invoked'))
    /\ threw' = "none"
    /\ called' = <<>>
    /\ UNCHANGED <<regVars, pendingOn, wire, nextCb, onSince, offSince>>

\* consumer.js:181-183 and 200-202: the loop reads the length of the queue once,
\* before the first callback runs (l = pending.length): of the queue as the
\* callbacks left it, the first l are invoked
DrainFirst(pending, l, err) == [i \in 1..l |-> <<pending[i], err>>]

\* consumer.js:180-185 with 168-173: the acknowledgement of subscribe(name)
\* whose first queued callback, when invoked, calls on(name, handler, cb).
\* The nested call finds the entry (line 169) and pendingOn[name], which line
\* 184 deletes only after the loop, so it pushes cb on the queue being drained.
SubscribedThenOn(err, handler, cb) ==
    /\ nextCb <= MaxCalls
    /\ inflight # <<>>
    /\ Head(inflight)[1] = "subscribe"
    /\ LET name == Head(inflight)[2]
           l == Len(pendingOn[name])
       IN /\ l >= 1
          /\ OnHasEntry(name)
          /\ OnQueues(name)
          /\ last' = [op |-> "subscribedThenOn", key |-> name, x |-> err, y |-> cb]
          /\ handlers' = OnHandlers(name, handler)
          /\ invoked' = DrainFirst(Push(pendingOn[name], cb), l, err)
          /\ pendingOn' = Del(pendingOn, name)
    /\ inflight' = Tail(inflight)
    /\ Called(cb, invoked')
    /\ threw' = "none"
    /\ called' = <<>>
    /\ UNCHANGED <<regVars, pendingOff, wire, onSince, offSince>>

\* consumer.js:198-204 with 188-191: the acknowledgement of unsubscribe(name)
\* whose first queued callback, when invoked, calls off(name, handler, cb).
\* The nested call finds pendingOff[name], which line 203 deletes only after
\* the loop, so it pushes cb on the queue being drained.
UnsubscribedThenOff(err, handler, cb) ==
    /\ nextCb <= MaxCalls
    /\ inflight # <<>>
    /\ Head(inflight)[1] = "unsubscribe"
    /\ LET name == Head(inflight)[2]
           l == Len(pendingOff[name])
       IN /\ l >= 1
          /\ OffQueues(name)
          /\ last' = [op |-> "unsubscribedThenOff", key |-> name, x |-> err, y |-> cb]
          /\ handlers' = AckHandlers(name)
          /\ invoked' = DrainFirst(Push(pendingOff[name], cb), l, err)
          /\ pendingOff' = Del(pendingOff, name)
    /\ inflight' = Tail(inflight)
    /\ Called(cb, invoked')
    /\ threw' = "none"
    /\ called' = <<>>
    /\ UNCHANGED <<regVars, pendingOn, wire, onSince, offSince>>

\* consumer.js:160-166
onEvent(name, value) ==
    /\ last' = [op |-> "onEvent", key |-> name, x |-> value, y |-> NoCb]
    /\ called' = [i \in 1..Len(EventList(name)) |-> <<EventList(name)[i], value>>]
    /\ invoked' = <<>>
    /\ threw' = "none"
    /\ UNCHANGED <<regVars, handlers, pendingOn, pendingOff, inflight, wire, nextCb, times, onSince, offSince>>

\* ------------------------------------------------------------ registries
\* the four tables and the heap, threaded through the construction of proxies
Tables == [streams |-> proxyStreams, processes |-> proxyProcesses,
           watchers |-> proxyWatchers, apis |-> proxyApis, objs |-> objs]

Obj(kind, id) ==
    [kind |-> kind, id |-> id, readable |-> FALSE, writable |-> FALSE,
     stdout |-> Nil, stderr |-> Nil, stdin |-> Nil, names |-> {}]

\* the oid of the proxy constructed last
Newest(t) == Len(t.objs)

\* the stream proxy is constructed but not stored in the table
makeStreamProxyUnstored(t, token) ==
    LET stream == [Obj("stream", token.id) EXCEPT !.readable = token.readable,
                                                  !.writable = token.writable]
    IN [t EXCEPT !.objs = Append(@, stream)]

\* consumer.js:61-85
makeStreamProxy(t, token) ==
    LET stream == [Obj("stream", token.id) EXCEPT !.readable = token.readable,
                                                  !.writable = token.writable]
    IN [t EXCEPT !.objs = Append(@, stream),
                 !.streams = Put(@, token.id, Len(t.objs) + 1)]

\* consumer.js:86-98: the process proxy, then its stdout, stderr and stdin
makeProcessProxy(t, token) ==
    LET p == Len(t.objs) + 1
        process == [Obj("process", token.pid) EXCEPT !.stdout = p + 1,
                                                     !.stderr = p + 2,
                                                     !.stdin = p + 3]
        t0 == [t EXCEPT !.objs = Append(@, process),
                        !.processes = Put(@, token.pid, p)]
        t1 == makeStreamProxy(t0, token.stdout)
        t2 == makeStreamProxy(t1, token.stderr)
    IN makeStreamProxy(t2, token.stdin)

\* consumer.js:100-110
makeWatcherProxy(t, token) ==
    [t EXCEPT !.objs = Append(@, Obj("watcher", token.id)),
              !.watchers = Put(@, token.id, Len(t.objs) + 1)]

\* consumer.js:112-121
makeApiProxy(t, token) ==
    [t EXCEPT !.objs = Append(@, [Obj("api", token.name) EXCEPT !.names = token.names]),
              !.apis = Put(@, token.name, Len(t.objs) + 1)]

\* A result: each of the fields stream, process, watcher, api is <<>> (absent)
\* or <<token>>.
\* consumer.js:217-228: the tables after the tokens of meta were replaced
AfterStream(t, meta) ==
    IF meta.stream # <<>> THEN makeStreamProxy(t, meta.stream[1]) ELSE t

AfterProcess(t, meta) ==
    IF meta.process # <<>> THEN makeProcessProxy(t, meta.process[1]) ELSE t

AfterWatcher(t, meta) ==
    IF meta.watcher # <<>> THEN makeWatcherProxy(t, meta.watcher[1]) ELSE t

AfterApi(t, meta) ==
    IF meta.api # <<>> THEN makeApiProxy(t, meta.api[1]) ELSE t

\* the error of the response is not looked at
IsErrorNever(err) == FALSE

\* consumer.js:216: the response is treated as an error
IsError(err) == err # "null"

\* consumer.js:217-230: the result handed to the callback: each token
\* replaced by the oid of its proxy (Nil for an absent field)
Routed(t, meta) ==
    LET t1 == AfterStream(t, meta)
        t2 == AfterProcess(t1, meta)
        t3 == AfterWatcher(t2, meta)
        t4 == AfterApi(t3, meta)
    IN [tables |-> t4,
        meta |-> [stream |-> IF meta.stream # <<>> THEN Newest(t1) ELSE Nil,
                  process |-> IF meta.process # <<>> THEN Newest(t2) - 3 ELSE Nil,
                  watcher |-> IF meta.watcher # <<>> THEN Newest(t3) ELSE Nil,
                  api |-> IF meta.api # <<>> THEN Newest(t4) ELSE Nil]]

SetTables(t) ==
    /\ proxyStreams' = t.streams
    /\ proxyProcesses' = t.processes
    /\ proxyWatchers' = t.watchers
    /\ proxyApis' = t.apis
    /\ objs' = t.objs

\* ---- the results the remote side sends
\* The remote side names a new resource by an identifier that names no live
\* proxy of the registry, and the identifiers of one result differ (spec, data
\* model: identifiers are unique within their registry's scope); it hands out
\* the lowest such identifiers.
Lowest(S) == CHOOSE x \in S : \A y \in S : x <= y

\* the k lowest elements of S, ascending
RECURSIVE LowestK(_, _)
LowestK(S, k) ==
    IF k = 0 \/ S = {} THEN <<>>
    ELSE <<Lowest(S)>> \o LowestK(S \ {Lowest(S)}, k - 1)

StreamToken(id, f) == [id |-> id, readable |-> f[1], writable |-> f[2]]

\* a spawned process: stdout and stderr readable, stdin writable
ProcessToken(pid, ids) ==
    [pid |-> pid,
     stdout |-> StreamToken(ids[1], <<TRUE, FALSE>>),
     stderr |-> StreamToken(ids[2], <<TRUE, FALSE>>),
     stdin |-> StreamToken(ids[3], <<FALSE, TRUE>>)]

\* the sets of token fields a result carries
Shapes ==
    {{}, {"stream"}, {"process"}, {"watcher"}, {"api"}, {"stream", "api"}}

\* the results of shape sh the remote side can send in the current state: a
\* field is <<>> (absent) or <<token>>
MetasOf(sh) ==
    LET free == StreamIds \ DOMAIN proxyStreams
        need == (IF "stream" \in sh THEN 1 ELSE 0) + (IF "process" \in sh THEN 3 ELSE 0)
        ids == LowestK(free, need)
        pids == Pids \ DOMAIN proxyProcesses
        wids == WatcherIds \ DOMAIN proxyWatchers
    IN IF \/ Len(ids) < need
          \/ "process" \in sh /\ pids = {}
          \/ "watcher" \in sh /\ wids = {}
       THEN {}
       ELSE {[stream |-> IF "stream" \in sh THEN <<StreamToken(ids[1], f)>> ELSE <<>>,
              process |-> IF "process" \in sh
                          THEN <<ProcessToken(Lowest(pids), SubSeq(ids, need - 2, need))>>
                          ELSE <<>>,
              watcher |-> IF "watcher" \in sh THEN <<[id |-> Lowest(wids)]>> ELSE <<>>,
              api |-> IF "api" \in sh THEN <<[name |-> n, names |-> FnNames]>> ELSE <<>>] :
            f \in (IF "stream" \in sh THEN Flags ELSE {<<FALSE, FALSE>>}),
            n \in (IF "api" \in sh THEN ApiNames ELSE {""})}

Metas == UNION {MetasOf(sh) : sh \in Shapes}

NoMeta == [stream |-> <<>>, process |-> <<>>, watcher |-> <<>>, api |-> <<>>]

\* ---- the facade
\* consumer.js:214
MissingCallback(cb) == cb = NoCb

Quiet ==
    /\ invoked' = <<>>
    /\ emitted' = <<>>
    /\ threw' = "none"

\* consumer.js:212-215: a routed operation is called
Call(op, cb) ==
    /\ last' = [op |-> "call", key |-> op, x |-> "", y |-> cb]
    /\ IF MissingCallback(cb)
       THEN /\ threw' = "Error"
            /\ sent' = <<>>
            /\ calls' = calls
            /\ forwarded' = forwarded
       ELSE /\ forwarded < MaxForwarded
            /\ threw' = "none"
            /\ sent' = <<<<op>>>>
            /\ calls' = Append(calls, [op |-> op, cb |-> cb])
            /\ forwarded' = forwarded + 1
    /\ invoked' = <<>>
    /\ emitted' = <<>>
    /\ UNCHANGED <<proxyStreams, proxyProcesses, proxyWatchers, proxyApis, objs, subVars, readied>>

\* consumer.js:234-236: ping hands its argument to the transport as it is
ping(cb) ==
    /\ last' = [op |-> "call", key |-> "ping", x |-> "", y |-> cb]
    /\ forwarded < MaxForwarded
    /\ forwarded' = forwarded + 1
    /\ calls' = IF cb = NoCb THEN calls ELSE Append(calls, [op |-> "ping", cb |-> cb])
    /\ sent' = <<<<"ping">>>>
    /\ Quiet
    /\ UNCHANGED <<proxyStreams, proxyProcesses, proxyWatchers, proxyApis, objs, subVars, readied>>

\* consumer.js:215-231: the response to the oldest routed call
Response(err, meta) ==
    /\ calls # <<>>
    /\ Head(calls).op # "ping"
    /\ calls' = Tail(calls)
    /\ last' = [op |-> "response", key |-> Head(calls).op,
                x |-> <<err, IF IsError(err) THEN NoMeta ELSE meta>>, y |-> Head(calls).cb]
    /\ IF IsError(err)
       THEN /\ invoked' = <<<<Head(calls).cb, err>>>>
            /\ UNCHANGED <<proxyStreams, proxyProcesses, proxyWatchers, proxyApis, objs>>
       ELSE /\ invoked' = <<<<Head(calls).cb, "null", Routed(Tables, meta).meta>>>>
            /\ SetTables(Routed(Tables, meta).tables)
    /\ sent' = <<>>
    /\ emitted' = <<>>
    /\ threw' = "none"
    /\ UNCHANGED <<subVars, forwarded, readied>>

\* the transport answers a ping: its callback was handed over as it is
Pong(err) ==
    /\ calls # <<>>
    /\ Head(calls).op = "ping"
    /\ calls' = Tail(calls)
    /\ last' = [op |-> "response", key |-> "ping", x |-> <<err, NoMeta>>, y |-> Head(calls).cb]
    /\ invoked' = <<<<Head(calls).cb, err>>>>
    /\ sent' = <<>>
    /\ emitted' = <<>>
    /\ threw' = "none"
    /\ UNCHANGED <<proxyStreams, proxyProcesses, proxyWatchers, proxyApis, objs, subVars, forwarded, readied>>

\* ---- inbound notifications
\* a notification that changes no table
Keep == UNCHANGED <<proxyStreams, proxyProcesses, proxyWatchers, proxyApis, objs, calls, subVars, forwarded>>

\* the API proxies that have emitted ready stay as they were
Same == UNCHANGED readied

\* reading a property of undefined: the handler throws a TypeError before
\* it has changed anything
Crash ==
    /\ threw' = "TypeError"
    /\ emitted' = <<>>
    /\ Keep
    /\ Same

\* the exit forgets the entry of stdin
ExitStreamsNoStdin(p) ==
    Del(Del(proxyStreams, objs[objs[p].stdout].id), objs[objs[p].stderr].id)

\* consumer.js:127-129: the stream table after the exit of process proxy p
ExitStreams(p) ==
    Del(Del(Del(proxyStreams, objs[objs[p].stdout].id), objs[objs[p].stderr].id),
        objs[objs[p].stdin].id)

\* consumer.js:123-130
onExit(pid, code, signal) ==
    /\ last' = [op |-> "onExit", key |-> pid, x |-> <<code, signal>>, y |-> NoCb]
    /\ invoked' = <<>>
    /\ sent' = <<>>
    /\ IF ~Has(proxyProcesses, pid) THEN Crash
       ELSE /\ threw' = "none"
            /\ emitted' = <<<<proxyProcesses[pid], "exit", <<code, signal>>>>>>
            /\ proxyProcesses' = Del(proxyProcesses, pid)
            /\ proxyStreams' = ExitStreams(proxyProcesses[pid])
            /\ UNCHANGED <<proxyWatchers, proxyApis, objs, calls, subVars, forwarded, readied>>

\* consumer.js:131-134
onData(id, chunk) ==
    /\ last' = [op |-> "onData", key |-> id, x |-> chunk, y |-> NoCb]
    /\ invoked' = <<>>
    /\ sent' = <<>>
    /\ IF ~Has(proxyStreams, id) THEN Crash
       ELSE /\ threw' = "none"
            /\ emitted' = <<<<proxyStreams[id], "data", <<chunk>>>>>>
            /\ Keep
            /\ Same

\* consumer.js:135-139
onEnd(id) ==
    /\ last' = [op |-> "onEnd", key |-> id, x |-> "", y |-> NoCb]
    /\ invoked' = <<>>
    /\ sent' = <<>>
    /\ IF ~Has(proxyStreams, id) THEN Crash
       ELSE /\ threw' = "none"
            /\ emitted' = <<<<proxyStreams[id], "end", <<>>>>>>
            /\ proxyStreams' = Del(proxyStreams, id)
            /\ UNCHANGED <<proxyProcesses, proxyWatchers, proxyApis, objs, calls, subVars, forwarded, readied>>

\* consumer.js:140-145
onClose(id) ==
    /\ last' = [op |-> "onClose", key |-> id, x |-> "", y |-> NoCb]
    /\ invoked' = <<>>
    /\ sent' = <<>>
    /\ threw' = "none"
    /\ IF ~Has(proxyStreams, id)
       THEN /\ emitted' = <<>>
            /\ Keep
            /\ Same
       ELSE /\ emitted' = <<<<proxyStreams[id], "close", <<>>>>>>
            /\ proxyStreams' = Del(proxyStreams, id)
            /\ UNCHANGED <<proxyProcesses, proxyWatchers, proxyApis, objs, calls, subVars, forwarded, readied>>

\* consumer.js:147-151
onChange(id, event, filename) ==
    /\ last' = [op |-> "onChange", key |-> id, x |-> <<event, filename>>, y |-> NoCb]
    /\ invoked' = <<>>
    /\ sent' = <<>>
    /\ threw' = "none"
    /\ emitted' = IF Has(proxyWatchers, id)
                  THEN <<<<proxyWatchers[id], "change", <<event, filename>>>>>>
                  ELSE <<>>
    /\ Keep
    /\ Same

\* consumer.js:153-157
onReady(name) ==
    /\ last' = [op |-> "onReady", key |-> name, x |-> "", y |-> NoCb]
    /\ invoked' = <<>>
    /\ sent' = <<>>
    /\ threw' = "none"
    /\ emitted' = IF Has(proxyApis, name)
                  THEN <<<<proxyApis[name], "ready", <<>>>>>>
                  ELSE <<>>
    /\ readied' = IF Has(proxyApis, name) THEN readied \cup {proxyApis[name]} ELSE readied
    /\ Keep

\* the elements of a set of numbers in ascending order (the order of
\* Object.keys over integer keys)
RECURSIVE Ascending(_)
Ascending(S) ==
    IF S = {} THEN <<>>
    ELSE LET m == CHOOSE x \in S : \A y \in S : x <= y
         IN <<m>> \o Ascending(S \ {m})

\* every registered stream proxy gets the drain event
DrainIdsAll == DOMAIN proxyStreams

\* consumer.js:54-56: the stream ids whose proxy gets the drain event
DrainIds == {id \in DOMAIN proxyStreams : objs[proxyStreams[id]].writable}

\* consumer.js:53-58
drain ==
    /\ last' = [op |-> "drain", key |-> 0, x |-> "", y |-> NoCb]
    /\ invoked' = <<>>
    /\ sent' = <<>>
    /\ threw' = "none"
    /\ emitted' = [i \in 1..Cardinality(DrainIds) |->
                        <<proxyStreams[Ascending(DrainIds)[i]], "drain", <<>>>>]
    /\ Keep
    /\ Same

\* ---- the proxies' methods, called on any proxy ever handed out
Forward(op, o, msg) ==
    /\ last' = [op |-> op, key |-> o, x |-> "", y |-> NoCb]
    /\ sent' = <<msg>>
    /\ Quiet
    /\ Same

\* the methods of all proxies of a kind share one variable id, which holds
\* the id of the proxy of that kind made last
IdOfNewest(o) ==
    objs[CHOOSE n \in DOMAIN objs :
            /\ objs[n].kind = objs[o].kind
            /\ \A m \in DOMAIN objs : objs[m].kind = objs[o].kind => m <= n].id

\* consumer.js:63,88,102,113: the variable id (pid, name) of the call of
\* make*Proxy that made proxy o, which the proxy's methods close over
IdOf(o) == objs[o].id

\* consumer.js:70-72
write(o, chunk) ==
    /\ objs[o].kind = "stream" /\ objs[o].writable
    /\ Forward("write", o, <<"write", IdOf(o), chunk>>)
    /\ Keep

\* consumer.js:73-76
end(o, chunk) ==
    /\ objs[o].kind = "stream" /\ objs[o].writable
    /\ Forward("end", o, IF chunk # "" THEN <<"end", IdOf(o), chunk>>
                                        ELSE <<"end", IdOf(o)>>)
    /\ Keep

\* consumer.js:79-81
destroy(o) ==
    /\ objs[o].kind = "stream" /\ objs[o].readable
    /\ Forward("destroy", o, <<"destroy", IdOf(o)>>)
    /\ Keep

\* consumer.js:94-96
kill(o, signal) ==
    /\ objs[o].kind = "process"
    /\ Forward("kill", o, <<"kill", IdOf(o), signal>>)
    /\ Keep

\* the close request is forwarded and the entry stays until the remote side
\* answers
closeKeepsEntry(o) ==
    /\ objs[o].kind = "watcher"
    /\ Forward("close", o, <<"close", objs[o].id>>)
    /\ Keep

\* consumer.js:105-108
close(o) ==
    /\ objs[o].kind = "watcher"
    /\ Forward("close", o, <<"close", IdOf(o)>>)
    /\ proxyWatchers' = Del(proxyWatchers, IdOf(o))
    /\ UNCHANGED <<proxyStreams, proxyProcesses, proxyApis, objs, calls, subVars, forwarded, readied>>

\* the invoke request is held back until the proxy has emitted ready
apiCallHeldUntilReady(o, fn, args) ==
    /\ objs[o].kind = "api" /\ fn \in objs[o].names
    /\ last' = [op |-> "apiCall", key |-> o, x |-> "", y |-> NoCb]
    /\ sent' = IF o \in readied THEN <<<<"call", IdOf(o), fn, args>>>> ELSE <<>>
    /\ Quiet
    /\ Same
    /\ Keep

\* consumer.js:116-118
apiCall(o, fn, args) ==
    /\ objs[o].kind = "api" /\ fn \in objs[o].names
    /\ Forward("apiCall", o, <<"call", IdOf(o), fn, args>>)
    /\ Keep

\* ---------------------------------------------------------------- init
\* consumer.js:20-26: every table starts empty
Init ==
    /\ proxyStreams = Empty
    /\ proxyProcesses = Empty
    /\ proxyWatchers = Empty
    /\ proxyApis = Empty
    /\ handlers = Empty
    /\ pendingOn = Empty
    /\ pendingOff = Empty
    /\ objs = <<>>
    /\ inflight = <<>>
    /\ wire = [n \in Names |-> <<>>]
    /\ calls = <<>>
    /\ forwarded = 0
    /\ sent = <<>>
    /\ emitted = <<>>
    /\ invoked = <<>>
    /\ called = <<>>
    /\ threw = "none"
    /\ last = [op |-> "init", key |-> "", x |-> "", y |-> NoCb]
    /\ nextCb = 1
    /\ times = <<>>
    /\ onSince = [n \in Names |-> <<>>]
    /\ offSince = [n \in Names |-> <<>>]
    /\ readied = {}

SubNext ==
    \/ \E name \in Names, handler \in Handlers, hasCb \in BOOLEAN :
            on(name, handler, IF hasCb THEN nextCb ELSE NoCb)
    \/ \E name \in Names, handler \in Handlers, hasCb \in BOOLEAN :
            off(name, handler, IF hasCb THEN nextCb ELSE NoCb)
    \/ \E err \in Errs : Subscribed(err)
    \/ \E err \in Errs : Unsubscribed(err)
    \/ \E name \in Names, value \in Values : onEvent(name, value)

SubSpec == Init /\ [][SubNext]_vars

\* the subscription manager with callbacks that call on or off while the
\* queue they were in is drained
ReNext ==
    \/ SubNext
    \/ \E err \in Errs, handler \in Handlers, hasCb \in BOOLEAN :
            SubscribedThenOn(err, handler, IF hasCb THEN nextCb ELSE NoCb)
    \/ \E err \in Errs, handler \in Handlers, hasCb \in BOOLEAN :
            UnsubscribedThenOff(err, handler, IF hasCb THEN nextCb ELSE NoCb)

ReSpec == Init /\ [][ReNext]_vars

RegNext ==
    \/ \E op \in Ops, cb \in Callbacks \cup {NoCb} : Call(op, cb)
    \/ \E cb \in Callbacks \cup {NoCb} : ping(cb)
    \/ \E err \in Errs, meta \in Metas : Response(err, meta)
    \/ \E err \in Errs : Pong(err)
    \/ \E pid \in Pids \cup {8}, e \in Exits : onExit(pid, e[1], e[2])
    \/ \E id \in StreamIds, chunk \in Chunks : onData(id, chunk)
    \/ \E id \in StreamIds : onEnd(id)
    \/ \E id \in StreamIds : onClose(id)
    \/ \E id \in WatcherIds, c \in Changes : onChange(id, c[1], c[2])
    \/ \E name \in ApiNames : onReady(name)
    \/ drain
    \/ \E o \in DOMAIN objs : close(o)

RegSpec == Init /\ [][RegNext]_vars

\* the proxies' methods, over the creation and removal of proxies
ProxyNext ==
    \/ \E cb \in Callbacks : Call("spawn", cb)
    \/ \E meta \in Metas : Response("null", meta)
    \/ \E pid \in Pids, e \in Exits : onExit(pid, e[1], e[2])
    \/ \E id \in StreamIds : onEnd(id)
    \/ \E id \in StreamIds : onClose(id)
    \/ \E id \in WatcherIds, c \in Changes : onChange(id, c[1], c[2])
    \/ \E name \in ApiNames : onReady(name)
    \/ \E o \in DOMAIN objs, chunk \in Chunks : write(o, chunk)
    \/ \E o \in DOMAIN objs, chunk \in Chunks \cup {""} : end(o, chunk)
    \/ \E o \in DOMAIN objs : destroy(o)
    \/ \E o \in DOMAIN objs : kill(o, "SIGTERM")
    \/ \E o \in DOMAIN objs : close(o)
    \/ \E o \in DOMAIN objs, fn \in FnNames : apiCall(o, fn, <<3, 5>>)

ProxySpec == Init /\ [][ProxyNext]_vars

\* ------------------------------------------------------------- claims
\* the subscribe requests for name that await their acknowledgement
Outstanding(op, name) == {i \in DOMAIN inflight : inflight[i] = <<op, name>>}

\* C1: the on calls made for a name from its wire-level subscribe to the
\* acknowledgement share that one subscribe (a second one is never in flight
\* beside it), none of their callbacks is invoked while the acknowledgement is
\* outstanding, and the acknowledgement invokes all of them, once each, with
\* its error, in the order of the on calls.
C1_OneSubscribeThenCallbacksInOrder ==
    \A n \in Names :
        /\ Cardinality(Outstanding("subscribe", n)) <= 1
        /\ InFlight("subscribe", n) =>
                \A i \in DOMAIN onSince[n] : times[onSince[n][i]] = 0
        /\ (last.op = "subscribed" /\ last.key = n) =>
                /\ invoked = [i \in DOMAIN onSince[n] |-> <<onSince[n][i], last.x>>]
                /\ \A i \in DOMAIN onSince[n] : times[onSince[n][i]] = 1

\* C1 witness: an acknowledgement carrying an error has just invoked the
\* callbacks of three on calls made while it was outstanding
C1_Witness ==
    /\ last.op = "subscribed"
    /\ last.x = "E"
    /\ Len(invoked) = 3
    /\ invoked = [i \in 1..3 |-> <<onSince[last.key][i], "E">>]

\* C2: the wire-level calls issued for a name alternate subscribe,
\* unsubscribe, subscribe, ... starting with subscribe.
C2_WireAlternates ==
    \A n \in Names : \A i \in DOMAIN wire[n] :
        wire[n][i] = IF i % 2 = 1 THEN "subscribe" ELSE "unsubscribe"

\* C2 witness: a name was subscribed, unsubscribed and subscribed again
C2_Witness == \E n \in Names : Len(wire[n]) = 3

\* C3: an off call leaves the entry alone; while the unsubscribe is
\* outstanding the entry is present and onEvent invokes every handler of the
\* entry in order; the unsubscribe acknowledgement deletes the entry whole,
\* whatever handler off was given and however many handlers it holds, and
\* onEvent for a name without entry invokes nothing.
C3_State ==
    \A n \in Names :
        /\ InFlight("unsubscribe", n) => Has(handlers, n) /\ handlers[n] # <<>>
        /\ (last.op = "unsubscribed" /\ last.key = n) => ~Has(handlers, n)
        /\ (last.op = "onEvent" /\ last.key = n) =>
                called = IF Has(handlers, n)
                         THEN [i \in DOMAIN handlers[n] |-> <<handlers[n][i], last.x>>]
                         ELSE <<>>

C3_Step ==
    /\ last'.op = "off" => handlers' = handlers
    /\ last'.op = "unsubscribed" =>
            /\ Has(handlers, last'.key)
            /\ handlers' = [n \in DOMAIN handlers \ {last'.key} |-> handlers[n]]
    /\ last'.op = "onEvent" => handlers' = handlers

C3_OffTearsDownWholeName == [](C3_State) /\ [][C3_Step]_vars

\* C3 witness: with the unsubscribe outstanding, an event has just been
\* delivered to both handlers of the entry
C3_Witness ==
    /\ last.op = "onEvent"
    /\ InFlight("unsubscribe", last.key)
    /\ called = <<<<"h1", last.x>>, <<"h2", last.x>>>>

\* C4: an off call with a callback, for a name with no entry and no pending
\* unsubscribe, invokes the callback within the call, issues no wire-level
\* call and leaves handlers, pendingOn and pendingOff as they were.
C4_Step ==
    (/\ last'.op = "off"
     /\ last'.y # NoCb
     /\ ~Has(handlers, last'.key)
     /\ ~Has(pendingOff, last'.key))
    => /\ invoked' = <<<<last'.y, "undefined">>>>
       /\ threw' = "none"
       /\ wire' = wire
       /\ inflight' = inflight
       /\ handlers' = handlers
       /\ pendingOn' = pendingOn
       /\ pendingOff' = pendingOff

C4_OffWithoutEntry == [][C4_Step]_vars

\* C4 witness: off has just invoked its callback for a name without entry
C4_Witness ==
    /\ last.op = "off"
    /\ last.y # NoCb
    /\ invoked = <<<<last.y, "undefined">>>>
    /\ ~Has(handlers, last.key)
    /\ wire[last.key] = <<>>

\* the oids a table holds
Held(t) == {t[k] : k \in DOMAIN t}

\* the three stream proxies of process proxy p
StreamsOf(p) == {objs[p].stdout, objs[p].stderr, objs[p].stdin}

\* C5: an exit notification for a registered pid emits exit with (code,
\* signal) on the registered process proxy, and afterwards the process table
\* has no entry for the pid and the stream table none for the ids of the
\* proxy's stdout, stderr and stdin, whether or not these were still entered.
C5_Step ==
    (last'.op = "onExit" /\ Has(proxyProcesses, last'.key)) =>
        LET p == proxyProcesses[last'.key] IN
        /\ threw' = "none"
        /\ emitted' = <<<<p, "exit", last'.x>>>>
        /\ ~Has(proxyProcesses', last'.key)
        /\ \A o \in StreamsOf(p) : ~Has(proxyStreams', objs[o].id)
        /\ objs' = objs

C5_ExitRemovesProcessAndStreams == [][C5_Step]_vars

\* C5 witness: a process has just exited whose stdout had been removed before
\* (a later stream proxy was given the id of its stdout)
C5_Witness ==
    /\ last.op = "onExit"
    /\ threw = "none"
    /\ emitted # <<>>
    /\ LET p == emitted[1][1] IN
        /\ objs[p].kind = "process"
        /\ ~Has(proxyProcesses, objs[p].id)
        /\ \E o \in DOMAIN objs :
            /\ o > objs[p].stdin
            /\ objs[o].kind = "stream"
            /\ objs[o].id = objs[objs[p].stdout].id

\* C6: a drain notification emits drain once on each stream proxy that is in
\* the stream table and writable, and on nothing else: not on a proxy removed
\* from the table, not on one that is not writable.
C6_DrainToRegisteredWritable ==
    last.op = "drain" =>
        /\ {emitted[i][1] : i \in DOMAIN emitted} =
                {o \in Held(proxyStreams) : objs[o].writable}
        /\ \A i, j \in DOMAIN emitted : emitted[i][1] = emitted[j][1] => i = j
        /\ \A i \in DOMAIN emitted : emitted[i][2] = "drain" /\ emitted[i][3] = <<>>

\* C6 witness: a drain reached a writable proxy while a removed writable
\* proxy and a registered proxy that is not writable got nothing
C6_Witness ==
    /\ last.op = "drain"
    /\ emitted # <<>>
    /\ \E o \in DOMAIN objs :
        /\ objs[o].kind = "stream" /\ objs[o].writable
        /\ o \notin Held(proxyStreams)
    /\ \E o \in Held(proxyStreams) : ~objs[o].writable

\* the result the callback of the last response was given
Given == invoked[1][3]

\* the result the last response carried
Got == last.x[2]

StreamEntered(token, o) ==
    /\ o # Nil
    /\ objs[o].kind = "stream"
    /\ objs[o].id = token.id
    /\ objs[o].readable = token.readable
    /\ objs[o].writable = token.writable
    /\ Has(proxyStreams, token.id)
    /\ proxyStreams[token.id] = o

\* C7: when the callback of a successful response is invoked, each token
\* field of the result has been replaced by a proxy made from the token, a
\* field without token stays empty, and the table of the proxy's kind holds
\* that proxy under the token's id, pid or name (the stream table holds the
\* three streams of a process); a notification for the identifier that
\* follows at once is emitted on the proxy the callback was given.
C7_State ==
    (last.op = "response" /\ last.key # "ping" /\ last.x[1] = "null") =>
        /\ Len(invoked) = 1
        /\ invoked[1][1] = last.y
        /\ invoked[1][2] = "null"
        /\ IF Got.stream = <<>> THEN Given.stream = Nil
           ELSE StreamEntered(Got.stream[1], Given.stream)
        /\ IF Got.process = <<>> THEN Given.process = Nil
           ELSE LET p == Given.process
                    tok == Got.process[1] IN
                /\ p # Nil
                /\ objs[p].kind = "process"
                /\ objs[p].id = tok.pid
                /\ Has(proxyProcesses, tok.pid)
                /\ proxyProcesses[tok.pid] = p
                /\ StreamEntered(tok.stdout, objs[p].stdout)
                /\ StreamEntered(tok.stderr, objs[p].stderr)
                /\ StreamEntered(tok.stdin, objs[p].stdin)
        /\ IF Got.watcher = <<>> THEN Given.watcher = Nil
           ELSE /\ Given.watcher # Nil
                /\ objs[Given.watcher].kind = "watcher"
                /\ Has(proxyWatchers, Got.watcher[1].id)
                /\ proxyWatchers[Got.watcher[1].id] = Given.watcher
        /\ IF Got.api = <<>> THEN Given.api = Nil
           ELSE /\ Given.api # Nil
                /\ objs[Given.api].kind = "api"
                /\ objs[Given.api].names = Got.api[1].names
                /\ Has(proxyApis, Got.api[1].name)
                /\ proxyApis[Got.api[1].name] = Given.api

C7_Step ==
    (last.op = "response" /\ last.key # "ping" /\ last.x[1] = "null") =>
        /\ (last'.op = "onData" /\ Got.stream # <<>> /\ last'.key = Got.stream[1].id)
                => emitted' = <<<<Given.stream, "data", <<last'.x>>>>>>
        /\ (last'.op = "onExit" /\ Got.process # <<>> /\ last'.key = Got.process[1].pid)
                => emitted' = <<<<Given.process, "exit", last'.x>>>>
        /\ (last'.op = "onData" /\ Got.process # <<>> /\ last'.key = Got.process[1].stdout.id)
                => emitted' = <<<<objs[Given.process].stdout, "data", <<last'.x>>>>>>
        /\ (last'.op = "onChange" /\ Got.watcher # <<>> /\ last'.key = Got.watcher[1].id)
                => emitted' = <<<<Given.watcher, "change", last'.x>>>>
        /\ (last'.op = "onReady" /\ Got.api # <<>> /\ last'.key = Got.api[1].name)
                => emitted' = <<<<Given.api, "ready", <<>>>>>>

C7_TokensBecomeRegisteredProxies == [](C7_State) /\ [][C7_Step]_vars

\* C7 witness: the callback has just been given a process proxy whose stdout
\* has the id of an older stream proxy that was removed before
C7_Witness ==
    /\ last.op = "response"
    /\ last.x[1] = "null"
    /\ Got.process # <<>>
    /\ Given.process > 1
    /\ objs[1].kind = "stream"
    /\ objs[1].id = Got.process[1].stdout.id
    /\ proxyProcesses[Got.process[1].pid] = Given.process
    /\ proxyStreams[Got.process[1].stdin.id] = objs[Given.process].stdin

\* C8: an error response invokes the callback of the call once, with the
\* error as its only argument, constructs no proxy and leaves the stream,
\* process, watcher and API tables unchanged.
C8_Step ==
    (last'.op = "response" /\ last'.key # "ping" /\ last'.x[1] # "null") =>
        /\ calls # <<>>
        /\ invoked' = <<<<Head(calls).cb, last'.x[1]>>>>
        /\ threw' = "none"
        /\ objs' = objs
        /\ proxyStreams' = proxyStreams
        /\ proxyProcesses' = proxyProcesses
        /\ proxyWatchers' = proxyWatchers
        /\ proxyApis' = proxyApis

C8_ErrorResponseOnlyCallsBack == [][C8_Step]_vars

\* C8 witness: an error response has just been handed to the callback while
\* the tables held proxies
C8_Witness ==
    /\ last.op = "response"
    /\ last.key # "ping"
    /\ last.x[1] = "E"
    /\ invoked = <<<<last.y, "E">>>>
    /\ proxyStreams # Empty
    /\ proxyProcesses # Empty

\* C9: a facade operation called without its callback fails at once with an
\* error and forwards nothing to the transport.
C9_MissingCallbackFails ==
    (last.op = "call" /\ last.y = NoCb) => (threw # "none" /\ sent = <<>>)

Notifications == {"onExit", "onData", "onEnd", "onClose", "onChange", "onReady", "onEvent"}

\* C10: the handler of an inbound notification never throws.
C10_NotificationNeverThrows ==
    last.op \in Notifications => threw = "none"

\* the four registries and the heap
Registries == <<proxyStreams, proxyProcesses, proxyWatchers, proxyApis, objs>>

\* C11: over any sequence of ready notifications an API proxy emits ready at
\* most once: a ready notification for a registered name is emitted only on a
\* proxy that has not emitted ready before; a ready notification for a name
\* with no API entry emits nothing and changes no registry.
C11_Step ==
    last'.op = "onReady" =>
        IF Has(proxyApis, last'.key)
        THEN emitted' # <<>> => proxyApis[last'.key] \notin readied
        ELSE /\ emitted' = <<>>
             /\ threw' = "none"
             /\ Registries' = Registries

C11_ReadyAtMostOnce == [][C11_Step]_vars


\* C12: the three stream entries of a registered process proxy leave the
\* stream table together and only by the exit of its pid: in every state all
\* three of stdout, stderr and stdin are entered or none is, and no end or
\* close notification removes one of them.
C12_State ==
    \A pid \in DOMAIN proxyProcesses :
        LET p == proxyProcesses[pid] IN
        \/ StreamsOf(p) \subseteq Held(proxyStreams)
        \/ StreamsOf(p) \cap Held(proxyStreams) = {}

C12_Step ==
    last'.op \in {"onEnd", "onClose"} =>
        \A pid \in DOMAIN proxyProcesses :
            StreamsOf(proxyProcesses[pid]) \cap Held(proxyStreams) \subseteq Held(proxyStreams')

C12_ProcessStreamsLeaveTogether == [](C12_State) /\ [][C12_Step]_vars


\* C13: close() on a watcher proxy forwards a close request keyed by the
\* watcher's id and removes the entry of that id within the call, queueing
\* nothing that waits for an answer; no other action removes or replaces a
\* watcher entry; a change notification for an id without entry (so one that
\* arrives after the close) emits nothing and changes no registry.
C13_State ==
    last.op = "close" => ~Has(proxyWatchers, objs[last.key].id)

C13_Step ==
    /\ last'.op = "close" =>
            /\ sent' = <<<<"close", objs[last'.key].id>>>>
            /\ threw' = "none"
            /\ proxyWatchers' = [k \in DOMAIN proxyWatchers \ {objs[last'.key].id} |-> proxyWatchers[k]]
            /\ calls' = calls
            /\ inflight' = inflight
    /\ (\E k \in DOMAIN proxyWatchers : ~Has(proxyWatchers', k) \/ proxyWatchers'[k] # proxyWatchers[k])
            => last'.op = "close"
    /\ (last'.op = "onChange" /\ ~Has(proxyWatchers, last'.key)) =>
            /\ emitted' = <<>>
            /\ threw' = "none"
            /\ Registries' = Registries

C13_CloseRemovesWatcherAtOnce == [](C13_State) /\ [][C13_Step]_vars

\* C13 witness: a change notification has just arrived for the id of a
\* watcher proxy that was closed, and nothing was emitted
C13_Witness ==
    /\ last.op = "onChange"
    /\ emitted = <<>>
    /\ ~Has(proxyWatchers, last.key)
    /\ \E o \in DOMAIN objs : objs[o].kind = "watcher" /\ objs[o].id = last.key


\* the stream ids the tokens of a result carry
TokenIds(meta) ==
    {meta.stream[i].id : i \in DOMAIN meta.stream} \cup
    UNION {{meta.process[i].stdout.id, meta.process[i].stderr.id, meta.process[i].stdin.id} :
                i \in DOMAIN meta.process}

\* C14: write and end on a writable stream proxy forward the id its token
\* carried when the proxy was made: a stream proxy is made with an id of the
\* tokens of the result, no later step changes a proxy (whatever proxies are
\* made, whatever entries are removed, its own included), and every write and
\* end forwards exactly one request carrying that id.
C14_Step ==
    /\ Len(objs') >= Len(objs)
    /\ \A o \in DOMAIN objs : objs'[o] = objs[o]
    /\ \A o \in DOMAIN objs' \ DOMAIN objs :
            objs'[o].kind = "stream" => objs'[o].id \in TokenIds(last'.x[2])
    /\ last'.op = "write" =>
            /\ objs[last'.key].kind = "stream"
            /\ \E chunk \in Chunks : sent' = <<<<"write", objs[last'.key].id, chunk>>>>
    /\ last'.op = "end" =>
            /\ objs[last'.key].kind = "stream"
            /\ \/ sent' = <<<<"end", objs[last'.key].id>>>>
               \/ \E chunk \in Chunks : sent' = <<<<"end", objs[last'.key].id, chunk>>>>

C14_WriteEndForwardOwnId == [][C14_Step]_vars

\* C14 witness: a write has just been forwarded with the id of a proxy whose
\* entry was removed and whose id a later, registered proxy was given
C14_Witness ==
    /\ last.op = "write"
    /\ last.key \notin Held(proxyStreams)
    /\ sent # <<>>
    /\ sent[1][2] = objs[last.key].id
    /\ \E o \in Held(proxyStreams) : o > last.key /\ objs[o].id = objs[last.key].id
    /\ \E o \in DOMAIN objs : objs[o].kind = "stream" /\ objs[o].id # objs[last.key].id


\* C15: a call of a declared function of an API proxy forwards one invoke
\* request (extension name, function name, argument list) within the call,
\* whether or not the proxy has emitted ready; nothing is queued and no
\* table changes.
C15_Step ==
    last'.op = "apiCall" =>
        /\ objs[last'.key].kind = "api"
        /\ \E fn \in objs[last'.key].names :
                sent' = <<<<"call", objs[last'.key].id, fn, <<3, 5>>>>>>
        /\ threw' = "none"
        /\ calls' = calls
        /\ inflight' = inflight
        /\ Registries' = Registries
        /\ readied' = readied

C15_ApiCallForwardsBeforeReady == [][C15_Step]_vars

\* C15 witness: add(3, 5) has just been forwarded for an API proxy that has
\* not emitted ready
C15_Witness ==
    /\ last.op = "apiCall"
    /\ last.key \notin readied
    /\ sent = <<<<"call", "math", "add", <<3, 5>>>>>>


\* C16: the off calls made for a name with an entry, from the one that issues
\* the wire-level unsubscribe to its acknowledgement, share that one
\* unsubscribe (a second one is never in flight beside it), none of their
\* callbacks is invoked before the acknowledgement, and the acknowledgement
\* invokes all of them, once each, with its error, in the order of the off
\* calls.
C16_OneUnsubscribeThenCallbacksInOrder ==
    \A n \in Names :
        /\ Cardinality(Outstanding("unsubscribe", n)) <= 1
        /\ InFlight("unsubscribe", n) =>
                /\ Has(handlers, n)
                /\ \A i \in DOMAIN offSince[n] : times[offSince[n][i]] = 0
        /\ (last.op = "off" /\ last.key = n /\ InFlight("unsubscribe", n)) => invoked = <<>>
        /\ (last.op = "unsubscribed" /\ last.key = n) =>
                /\ invoked = [i \in DOMAIN offSince[n] |-> <<offSince[n][i], last.x>>]
                /\ \A i \in DOMAIN offSince[n] : times[offSince[n][i]] = 1

\* C16 witness: an acknowledgement carrying an error has just invoked, in
\* call order, the callbacks of several off calls made while the entry existed
C16_Witness ==
    /\ last.op = "unsubscribed"
    /\ last.x = "E"
    /\ Len(invoked) >= 2
    /\ invoked = [i \in DOMAIN offSince[last.key] |-> <<offSince[last.key][i], "E">>]
    /\ invoked[1][1] < invoked[2][1]


\* C17: a name moves along unregistered, subscribing, subscribed,
\* unsubscribing, unregistered: no unsubscribe is in flight or pending for a
\* name whose subscribe acknowledgement is outstanding, so a name never awaits
\* both acknowledgements at once.
C17_SubscriptionCycle ==
    \A n \in Names :
        /\ ~(InFlight("subscribe", n) /\ InFlight("unsubscribe", n))
        /\ ~(Has(pendingOn, n) /\ Has(pendingOff, n))


\* C18: a handler whose on call has invoked its callback without error stays
\* in the entry of its name over every later step that is not an off call for
\* that name; an on call made while an unsubscribe for the name is pending
\* does not invoke its callback.
C18_State ==
    (last.op = "on" /\ Has(pendingOff, last.key)) => invoked = <<>>

C18_Step ==
    (/\ last.op = "on"
     /\ invoked = <<<<last.y, "undefined">>>>
     /\ ~(last'.op = "off" /\ last'.key = last.key))
    => /\ Has(handlers', last.key)
       /\ last.x \in Range(handlers'[last.key])

C18_ReportedHandlerStays == [](C18_State) /\ [][C18_Step]_vars


\* callback c waits in a queue of pendingOn or pendingOff
Queued(c) ==
    \/ \E n \in DOMAIN pendingOn : c \in Range(pendingOn[n])
    \/ \E n \in DOMAIN pendingOff : c \in Range(pendingOff[n])

\* C19: no callback passed to on or off is lost or invoked twice: the callback
\* of the latest call, a call made from inside a callback during a drain
\* included, has been invoked once or waits in a queue whose acknowledgement
\* is outstanding; a queued callback stays queued until a step invokes it;
\* none is invoked more than once.
C19_State ==
    /\ \A c \in DOMAIN times : times[c] <= 1
    /\ last.y # NoCb => (times[last.y] = 1 \/ Queued(last.y))
    /\ \A n \in DOMAIN pendingOn : InFlight("subscribe", n)
    /\ \A n \in DOMAIN pendingOff : InFlight("unsubscribe", n)

C19_Step ==
    \A c \in DOMAIN times :
        Queued(c) => \/ Queued(c)'
                     \/ \E i \in DOMAIN invoked' : invoked'[i][1] = c

C19_EveryCallbackInvokedOnce == [](C19_State) /\ [][C19_Step]_vars


\* C20: the exit of a registered pid removes from the stream table only
\* entries that hold a stream proxy of that process: every other entry, one
\* for a new proxy that was given the id of a stream of the process removed
\* before included, is still there after the exit, and the entries of other
\* processes, of watchers and of APIs are unchanged.
C20_Step ==
    (last'.op = "onExit" /\ Has(proxyProcesses, last'.key)) =>
        LET p == proxyProcesses[last'.key] IN
        /\ \A id \in DOMAIN proxyStreams :
                proxyStreams[id] \notin StreamsOf(p) =>
                    /\ Has(proxyStreams', id)
                    /\ proxyStreams'[id] = proxyStreams[id]
        /\ \A pid \in DOMAIN proxyProcesses \ {last'.key} :
                /\ Has(proxyProcesses', pid)
                /\ proxyProcesses'[pid] = proxyProcesses[pid]
        /\ proxyWatchers' = proxyWatchers
        /\ proxyApis' = proxyApis

C20_ExitRemovesOnlyOwnStreams == [][C20_Step]_vars

====
